---- MODULE Spec2Model ----
(***************************************************************************)
(* Model of iceoryx_examples/waitset/ice_waitset_trigger.cpp: the class    *)
(* MyTriggerClass (two latched events that can be attached to a WaitSet),  *)
(* the consumer loop backgroundThread and the producers of main.           *)
(*                                                                         *)
(* The WaitSet / Trigger library itself (iox::popo::WaitSet,               *)
(* iox::popo::Trigger) is not part of the example's source file; its       *)
(* operations acquire, release, wait, signal and teardown are modelled     *)
(* from sections 3 to 5 of the specification. The specification requires   *)
(* a mechanism that unblocks a blocked wait but does not say what it is,    *)
(* and the example has none (backgroundThread loops for ever and main       *)
(* never tears the waitset down): no such mechanism is modelled.            *)
(***************************************************************************)
EXTENDS Integers, Sequences, FiniteSets, TLC

\* ------------------------------------------------------------------ bounds
Capacity == 2          \* N, the number of slots of the registry
MaxCode == 2           \* activation codes issued by one producer: 1..MaxCode
MaxReturns == 2        \* wait calls followed while an event is never reset

\* --------------------------------------------------------------- constants
ACTIVATE_ID == 0
ACTION_ID == 1

MyTriggerClassEvents == {"PERFORMED_ACTION", "ACTIVATE"}
Slots == 1..Capacity
NullHandle == 0        \* a default-constructed / reset Trigger member

VARIABLES
    table,      \* registry: the slot table, Slots -> Trigger record
    order,      \* history: the valid slots in the order they were registered
    wake,       \* registry: the shared wake signal has a pending notification
    life,       \* registry: "up", or "down" once it was torn down
    obj,        \* the origins: Origins -> MyTriggerClass members
    mpc,        \* main: <<>>, or inside attachToWaitset after acquireTrigger
                \* returned: [origin, event, error, slots, this], the result
                \* of the acquire and the members the call goes on to store
    ppc,        \* the threads other than backgroundThread: thread -> [pc,
                \* origin, only, left], its position inside a call, the one
                \* call it is bound to (<<>>: any signal, <<"wait">>: it runs
                \* backgroundThread) and the calls it still makes (-1: it
                \* loops for ever)
    code,       \* producers: thread -> its local variable activationCode
    cpc,        \* consumer: position in backgroundThread
    timed,      \* consumer: the wait call in progress is the bounded variant
    scan,       \* consumer: inside wait, next slot to evaluate
    acc,        \* consumer: inside wait, satisfied slots found so far
    res,        \* consumer: the TriggerState vector returned by wait
    resSlots,   \* history: the slot each entry of res was produced from
    idx,        \* consumer: position in the for loop over res
    outcome,    \* consumer: how the wait call of this loop iteration ended
                \* ("none": not yet, "woken": not yet, it was woken and scans again)
    seen,       \* consumer: activation code read by the last callOnActivate
    got,        \* history: slot -> times a wait returned it (<<>>: not recorded)
    atCall,     \* history: inside the first scan of a wait call, the slots
                \* that were signalled when wait was called
    ret,        \* history: return value of the registry call of the last step
    hooks,      \* history: invalidation hooks invoked by the last step
    rel         \* history: <<origin, event, freed>> of the last release of a
                \* stored handle and whether it freed a slot, until that event
                \* is attached again

vars == <<table, order, wake, life, obj, mpc, ppc, code, cpc, timed, scan, acc, res,
          resSlots, idx, outcome, seen, got, atCall, ret, hooks, rel>>

\* ------------------------------------------------------- Trigger records
FreeSlot == [valid |-> FALSE, origin |-> "none", predicate |-> "none",
             hook |-> "none", gid |-> 0, callback |-> "none"]

\* the arguments main passes with each event (lines 182 to 184)
CallbackOf(event) ==
    IF event = "ACTIVATE" THEN "callOnActivate" ELSE "callOnAction"

IdOf(event) == IF event = "ACTIVATE" THEN ACTIVATE_ID ELSE ACTION_ID

\* ------------------------------------------------------- MyTriggerClass
NewObject == [m_activationCode |-> 0,
              m_hasPerformedAction |-> FALSE,
              m_isActivated |-> FALSE,
              m_actionTrigger |-> NullHandle,
              m_activateTrigger |-> NullHandle]

hasPerformedAction(o) == o.m_hasPerformedAction

\* a variant of isActivated that never reports the latch
isActivatedNever(o) == FALSE

isActivated(o) == o.m_isActivated

getActivationCode(o) == o.m_activationCode

\* reset(), line 69
resetHasPerformedAction(o) == [o EXCEPT !.m_hasPerformedAction = FALSE]

\* a variant of line 70 that leaves the latch as it is
resetIsActivatedSkipped(o) == o

\* reset(), line 70
resetIsActivated(o) == [o EXCEPT !.m_isActivated = FALSE]

\* evaluation of the predicate stored in a slot, on the origin it is bound to
Predicate(name, o) ==
    IF name = "hasPerformedAction" THEN hasPerformedAction(o)
    ELSE IF name = "isActivated" THEN isActivated(o)
    ELSE FALSE

\* ------------------------------------------------------------- registry
NumValid(tbl) == Cardinality({s \in Slots : tbl[s].valid})

FreeSlots(tbl) == {s \in Slots : ~tbl[s].valid}

FirstFree(tbl) == CHOOSE s \in FreeSlots(tbl) : \A t \in FreeSlots(tbl) : s <= t

\* acquire: first free slot, all fields stored; CapacityExceeded when full
acquireTrigger(tbl, origin, predicate, hook, gid, callback) ==
    IF FreeSlots(tbl) = {}
    THEN [error |-> "CapacityExceeded", handle |-> NullHandle, table |-> tbl]
    ELSE LET s == FirstFree(tbl) IN
         [error |-> "none", handle |-> s,
          table |-> [tbl EXCEPT ![s] = [valid |-> TRUE, origin |-> origin,
                                        predicate |-> predicate, hook |-> hook,
                                        gid |-> gid, callback |-> callback]]]

\* a handle is valid while it names a slot
HandleValid(h) == h # NullHandle

\* Trigger::isLogicalEqualTo: both valid, same origin and same predicate
isLogicalEqualTo(tbl, s, h) ==
    /\ s \in Slots /\ tbl[s].valid
    /\ HandleValid(h) /\ tbl[h].valid
    /\ tbl[s].origin = tbl[h].origin
    /\ tbl[s].predicate = tbl[h].predicate

\* a variant of unsetTrigger whose first branch resets the other member
unsetOtherMember(o, tbl, s) ==
    IF isLogicalEqualTo(tbl, s, o.m_actionTrigger)
    THEN [o EXCEPT !.m_activateTrigger = NullHandle]
    ELSE IF isLogicalEqualTo(tbl, s, o.m_activateTrigger)
    THEN [o EXCEPT !.m_activateTrigger = NullHandle]
    ELSE o

\* a variant of unsetTrigger whose branches reset each other's member
unsetSwapped(o, tbl, s) ==
    IF isLogicalEqualTo(tbl, s, o.m_actionTrigger)
    THEN [o EXCEPT !.m_activateTrigger = NullHandle]
    ELSE IF isLogicalEqualTo(tbl, s, o.m_activateTrigger)
    THEN [o EXCEPT !.m_actionTrigger = NullHandle]
    ELSE o

\* a variant of unsetTrigger without the second branch
unsetActionOnly(o, tbl, s) ==
    IF isLogicalEqualTo(tbl, s, o.m_actionTrigger)
    THEN [o EXCEPT !.m_actionTrigger = NullHandle]
    ELSE o

\* a variant of unsetTrigger that resets both members on a match
unsetBoth(o, tbl, s) ==
    IF \/ isLogicalEqualTo(tbl, s, o.m_actionTrigger)
       \/ isLogicalEqualTo(tbl, s, o.m_activateTrigger)
    THEN [o EXCEPT !.m_actionTrigger = NullHandle, !.m_activateTrigger = NullHandle]
    ELSE o

\* the invalidation hook of MyTriggerClass, called with the Trigger of slot s
unsetTrigger(o, tbl, s) ==
    IF isLogicalEqualTo(tbl, s, o.m_actionTrigger)
    THEN [o EXCEPT !.m_actionTrigger = NullHandle]
    ELSE IF isLogicalEqualTo(tbl, s, o.m_activateTrigger)
    THEN [o EXCEPT !.m_activateTrigger = NullHandle]
    ELSE o

\* release of handle h: hook on the slot's origin, then the slot is freed
releaseTrigger(tbl, objs, h) ==
    IF HandleValid(h) /\ tbl[h].valid
    THEN [table |-> [tbl EXCEPT ![h] = FreeSlot],
          obj |-> [objs EXCEPT ![tbl[h].origin] = unsetTrigger(@, tbl, h)],
          hooks |-> 1]
    ELSE [table |-> tbl, obj |-> objs, hooks |-> 0]

RemoveFrom(seq, x) == SelectSeq(seq, LAMBDA y : y # x)

\* the member of MyTriggerClass that stores the handle of an event
MemberOf(o, event) ==
    IF event = "PERFORMED_ACTION" THEN o.m_actionTrigger ELSE o.m_activateTrigger

\* the latch of an event of an origin
Latch(o, event) ==
    IF event = "PERFORMED_ACTION" THEN o.m_hasPerformedAction ELSE o.m_isActivated

\* slot s is valid, an origin stores its handle and has that event's latch set
Signalled(tbl, objs, s) ==
    /\ tbl[s].valid
    /\ \E o \in DOMAIN objs, e \in MyTriggerClassEvents :
          MemberOf(objs[o], e) = s /\ Latch(objs[o], e)

\* --------------------------------------------------------------- Init
\* the origins of a run
Origins == DOMAIN obj

\* the threads of a run that execute backgroundThread besides the first
Consumers == {p \in DOMAIN ppc : ppc[p].only = <<"wait">>}

\* the threads of a run that signal
Producers == DOMAIN ppc \ Consumers

\* the loop of triggerThread (lines 187 to 196)
LoopingThread == [pc |-> "idle", origin |-> "none", only |-> <<>>, left |-> -1]

\* the consumer before its first wait call
ConsumerInit ==
    /\ cpc = "call"
    /\ timed = FALSE
    /\ scan = 0
    /\ acc = <<>>
    /\ res = <<>>
    /\ resSlots = <<>>
    /\ idx = 0
    /\ outcome = "none"
    /\ seen = 0
    /\ atCall = {}

\* main: one waitset, one MyTriggerClass, one triggerThread, nothing attached
Init ==
    /\ table = [s \in Slots |-> FreeSlot]
    /\ order = <<>>
    /\ wake = FALSE
    /\ life = "up"
    /\ mpc = <<>>
    /\ obj = [o \in {"A"} |-> NewObject]
    /\ ppc = [p \in {"triggerThread"} |-> LoopingThread]
    /\ code = [p \in {"triggerThread"} |-> 1]
    /\ ConsumerInit
    /\ got = <<>>
    /\ ret = "none"
    /\ hooks = 0
    /\ rel = <<>>

\* the table is locked while a consumer scans it inside wait
TableLocked == cpc = "scan" \/ \E p \in DOMAIN ppc : ppc[p].pc = "scan"

\* a variant of attachToWaitset whose first case falls through into the second
attachFallThrough(tbl, this, name, event, gid, callback) ==
    LET r1 == IF event = "PERFORMED_ACTION"
              THEN acquireTrigger(tbl, name, "hasPerformedAction", "unsetTrigger", gid, callback)
              ELSE [error |-> "none", handle |-> NullHandle, table |-> tbl]
        t1 == IF event = "PERFORMED_ACTION" /\ r1.error = "none"
              THEN [this EXCEPT !.m_actionTrigger = r1.handle] ELSE this
        r2 == acquireTrigger(r1.table, name, "isActivated", "unsetTrigger", gid, callback)
    IN [error |-> r2.error, table |-> r2.table,
        this |-> IF r2.error = "none" THEN [t1 EXCEPT !.m_activateTrigger = r2.handle]
                                      ELSE t1]

\* a variant of attachToWaitset whose second case binds the first case's predicate
attachSamePredicate(tbl, this, name, event, gid, callback) ==
    LET r == acquireTrigger(tbl, name, "hasPerformedAction", "unsetTrigger", gid, callback) IN
    [error |-> r.error, table |-> r.table,
     this |-> IF r.error # "none" THEN this
              ELSE IF event = "PERFORMED_ACTION"
              THEN [this EXCEPT !.m_actionTrigger = r.handle]
              ELSE [this EXCEPT !.m_activateTrigger = r.handle]]

\* a variant of attachToWaitset that stores the handle in both members
attachStoresInBoth(tbl, this, name, event, gid, callback) ==
    LET r == acquireTrigger(tbl, name,
                            IF event = "PERFORMED_ACTION" THEN "hasPerformedAction"
                                                          ELSE "isActivated",
                            "unsetTrigger", gid, callback) IN
    [error |-> r.error, table |-> r.table,
     this |-> IF r.error = "none"
              THEN [this EXCEPT !.m_actionTrigger = r.handle,
                                !.m_activateTrigger = r.handle]
              ELSE this]

\* a variant of attachToWaitset that stores the result of acquire unchecked
attachStoresOnFailure(tbl, this, name, event, gid, callback) ==
    IF event = "PERFORMED_ACTION"
    THEN LET r == acquireTrigger(tbl, name, "hasPerformedAction", "unsetTrigger", gid, callback) IN
         [error |-> r.error, table |-> r.table,
          this |-> [this EXCEPT !.m_actionTrigger = r.handle]]
    ELSE LET r == acquireTrigger(tbl, name, "isActivated", "unsetTrigger", gid, callback) IN
         [error |-> r.error, table |-> r.table,
          this |-> [this EXCEPT !.m_activateTrigger = r.handle]]

\* MyTriggerClass::attachToWaitset(waitset, event, triggerId, callback) of
\* the object this (named name): the new table, the new members, the result
attachToWaitset(tbl, this, name, event, gid, callback) ==
    IF event = "PERFORMED_ACTION"
    THEN LET r == acquireTrigger(tbl, name, "hasPerformedAction", "unsetTrigger", gid, callback) IN
         [error |-> r.error, table |-> r.table,
          this |-> IF r.error = "none" THEN [this EXCEPT !.m_actionTrigger = r.handle]
                                       ELSE this]
    ELSE LET r == acquireTrigger(tbl, name, "isActivated", "unsetTrigger", gid, callback) IN
         [error |-> r.error, table |-> r.table,
          this |-> IF r.error = "none" THEN [this EXCEPT !.m_activateTrigger = r.handle]
                                       ELSE this]

\* the slots of tbl that are valid and were not valid in old, in slot order
RECURSIVE NewSlots(_, _, _)
NewSlots(old, tbl, s) ==
    IF s > Capacity THEN <<>>
    ELSE (IF tbl[s].valid /\ ~old[s].valid THEN <<s>> ELSE <<>>) \o NewSlots(old, tbl, s + 1)

\* a call of attachToWaitset as main makes it (lines 182 to 184), up to the
\* return of waitset.acquireTrigger: the slot is valid, the member not yet
\* assigned. The registry calls of a run are made by one thread, main's,
\* one after the other
Attach(o, event) ==
    /\ life = "up" /\ ~TableLocked /\ mpc = <<>>
    /\ LET r == attachToWaitset(table, obj[o], o, event, IdOf(event), CallbackOf(event)) IN
       /\ table' = r.table
       /\ order' = order \o NewSlots(table, r.table, 1)
       /\ ret' = IF r.error = "none" THEN "success" ELSE r.error
       /\ rel' = IF r.error = "none" /\ rel # <<>> /\ rel[1] = o /\ rel[2] = event
                 THEN <<>> ELSE rel
       /\ mpc' = [origin |-> o, event |-> event, error |-> r.error,
                  slots |-> NewSlots(table, r.table, 1), this |-> r.this]
    /\ hooks' = 0
    /\ UNCHANGED <<wake, life, obj, ppc, code, cpc, timed, scan, acc, res, resSlots,
                   idx, outcome, seen, got, atCall>>

\* the and_then of lines 95 and 108 assigns the member, outside the
\* registry's critical section, and attachToWaitset returns what
\* acquireTrigger returned
AttachStore ==
    /\ mpc # <<>>
    /\ obj' = [obj EXCEPT ![mpc.origin] =
                  [@ EXCEPT !.m_actionTrigger = mpc.this.m_actionTrigger,
                            !.m_activateTrigger = mpc.this.m_activateTrigger]]
    /\ mpc' = <<>>
    /\ hooks' = 0
    /\ UNCHANGED <<table, order, wake, life, ppc, code, cpc, timed, scan, acc, res,
                   resSlots, idx, outcome, seen, got, atCall, ret, rel>>

\* main attaches each event once: the event has no stored handle yet
AttachOnce(o, event) == ~HandleValid(MemberOf(obj[o], event)) /\ Attach(o, event)

\* release of the handle an origin stores for an event
Release(o, event) ==
    /\ life = "up" /\ ~TableLocked /\ mpc = <<>>
    /\ LET h == MemberOf(obj[o], event)
           r == releaseTrigger(table, obj, h)
       IN /\ table' = r.table
          /\ obj' = r.obj
          /\ hooks' = r.hooks
          /\ order' = IF r.hooks = 1 THEN RemoveFrom(order, h) ELSE order
          /\ ret' = IF r.hooks = 1 THEN "released" ELSE "noop"
    /\ rel' = IF ret' = "noop" /\ rel # <<>> /\ rel[1] = o /\ rel[2] = event
              THEN rel ELSE <<o, event, ret' = "released">>
    /\ UNCHANGED <<wake, life, mpc, ppc, code, cpc, timed, scan, acc, res, resSlots,
                   idx, outcome, seen, got, atCall>>

\* ------------------------------------------------------------ producers
\* Trigger::trigger() on a stored handle: notifies the wake signal of the
\* registry; on an invalid handle it does nothing
trigger(h, w) == IF HandleValid(h) THEN TRUE ELSE w

\* line 37
activateStoreCode(o, activationCode) == [o EXCEPT !.m_activationCode = activationCode]

\* line 38
activateSetLatch(o) == [o EXCEPT !.m_isActivated = TRUE]

\* a variant of line 45 that also clears the other latch
performActionClearsActivated(o) ==
    [o EXCEPT !.m_hasPerformedAction = TRUE, !.m_isActivated = FALSE]

\* a variant of line 45 that also resets the stored handle
performActionDropsHandle(o) ==
    [o EXCEPT !.m_hasPerformedAction = TRUE, !.m_actionTrigger = NullHandle]

\* line 45
performActionSetLatch(o) == [o EXCEPT !.m_hasPerformedAction = TRUE]

\* a step that is no registry call returns nothing and invokes no hook
NoCall == ret' = "none" /\ hooks' = 0

ProducerFrame ==
    /\ NoCall
    /\ UNCHANGED <<table, order, life, mpc, cpc, timed, scan, acc, res, resSlots, idx,
                   outcome, seen, got, atCall, rel>>

\* may thread p start the call of event e on origin o
MayCall(p, o, e) ==
    /\ ppc[p].pc = "idle" /\ ppc[p].left # 0
    /\ ppc[p].only \in {<<>>, <<o, e>>}

InCall(p, o, pc) == [ppc EXCEPT ![p].pc = pc, ![p].origin = o]

Returns(p) == [ppc EXCEPT ![p].pc = "idle", ![p].origin = "none",
                          ![p].left = IF @ > 0 THEN @ - 1 ELSE @]

\* triggerClass->activate(activationCode++). m_activationCode and
\* m_isActivated are plain members that the producer writes and the consumer
\* thread reads without synchronisation (a data race): the stores of lines
\* 37 and 38 become visible to the consumer in either order, both before
\* trigger() of line 39
ActivateCall(p, o) ==
    /\ MayCall(p, o, "ACTIVATE") /\ code[p] <= MaxCode
    /\ code' = [code EXCEPT ![p] = @ + 1]
    /\ \/ /\ obj' = [obj EXCEPT ![o] = activateStoreCode(@, code[p])]
          /\ ppc' = InCall(p, o, "activate_latch")
       \/ /\ obj' = [obj EXCEPT ![o] = activateSetLatch(@)]
          /\ ppc' = InCall(p, o, "activate_code")
    /\ UNCHANGED wake /\ ProducerFrame

\* the store of line 37 becomes visible after the store of line 38
ActivateCode(p) ==
    /\ ppc[p].pc = "activate_code"
    /\ obj' = [obj EXCEPT ![ppc[p].origin] = activateStoreCode(@, code[p] - 1)]
    /\ ppc' = [ppc EXCEPT ![p].pc = "activate_trigger"]
    /\ UNCHANGED <<wake, code>> /\ ProducerFrame

\* the store of line 38 becomes visible after the store of line 37
ActivateLatch(p) ==
    /\ ppc[p].pc = "activate_latch"
    /\ obj' = [obj EXCEPT ![ppc[p].origin] = activateSetLatch(@)]
    /\ ppc' = [ppc EXCEPT ![p].pc = "activate_trigger"]
    /\ UNCHANGED <<wake, code>> /\ ProducerFrame

\* a variant of line 39 that returns without calling trigger()
ActivateWithoutTrigger(p) ==
    /\ ppc[p].pc = "activate_trigger"
    /\ ppc' = [ppc EXCEPT ![p].pc = "idle", ![p].origin = "none",
                          ![p].left = IF @ > 0 THEN @ - 1 ELSE @]
    /\ NoCall
    /\ UNCHANGED <<table, order, wake, life, obj, mpc, code, cpc, timed, scan, acc,
                   res, resSlots, idx, outcome, seen, got, atCall, rel>>

ActivateTrigger(p) ==
    /\ ppc[p].pc = "activate_trigger"
    /\ wake' = trigger(obj[ppc[p].origin].m_activateTrigger, wake)
    /\ ppc' = Returns(p)
    /\ UNCHANGED <<obj, code>> /\ ProducerFrame

\* triggerClass->performAction(): the latch is set first
PerformActionCall(p, o) ==
    /\ MayCall(p, o, "PERFORMED_ACTION")
    /\ obj' = [obj EXCEPT ![o] = performActionSetLatch(@)]
    /\ ppc' = InCall(p, o, "action_trigger")
    /\ UNCHANGED <<wake, code>> /\ ProducerFrame

PerformActionTrigger(p) ==
    /\ ppc[p].pc = "action_trigger"
    /\ wake' = trigger(obj[ppc[p].origin].m_actionTrigger, wake)
    /\ ppc' = Returns(p)
    /\ UNCHANGED <<obj, code>> /\ ProducerFrame

\* ------------------------------------------------------------- consumer
\* the TriggerState produced for a satisfied slot
TriggerState(tbl, s) == [gid |-> tbl[s].gid, origin |-> tbl[s].origin,
                         callback |-> tbl[s].callback]

TriggerStates(tbl, slots) == [i \in 1..Len(slots) |-> TriggerState(tbl, slots[i])]

\* the satisfied slots after the scan has evaluated slot s
Found(slots, s, sat) == IF sat THEN Append(slots, s) ELSE slots

\* one slot of the scan inside wait: is it valid and is its predicate true
Satisfied(tbl, objs, s) ==
    tbl[s].valid /\ Predicate(tbl[s].predicate, objs[tbl[s].origin])

ConsumerFrame == NoCall /\ UNCHANGED <<table, order, life, mpc, ppc, code, rel>>

\* the record of returned slots, when it is kept
Returned(g, slots) ==
    IF g = <<>> THEN g
    ELSE [s \in Slots |-> IF \E i \in 1..Len(slots) : slots[i] = s
                          THEN g[s] + 1 ELSE g[s]]

\* waitset->wait() (line 158), or its bounded variant: the scan starts
WaitCall(bounded) ==
    /\ cpc = "call"
    /\ outcome' = "none" /\ cpc' = "scan" /\ scan' = 1 /\ acc' = <<>>
    /\ atCall' = {s \in Slots : Signalled(table, obj, s)}
    /\ timed' = bounded
    /\ UNCHANGED <<wake, obj, res, resSlots, idx, seen, got>> /\ ConsumerFrame

\* the scan evaluates one slot; after the last slot wait returns the
\* satisfied slots, or blocks when there is none
WaitScan ==
    /\ cpc = "scan"
    /\ LET found == Found(acc, scan, Satisfied(table, obj, scan)) IN
       IF scan < Capacity
       THEN /\ scan' = scan + 1 /\ acc' = found
            /\ UNCHANGED <<cpc, res, resSlots, idx, outcome, got, atCall>>
       ELSE /\ scan' = 0 /\ acc' = <<>> /\ atCall' = {}
            /\ IF found # <<>>
               THEN /\ cpc' = "dispatch" /\ idx' = 1 /\ outcome' = "set"
                    /\ res' = TriggerStates(table, found) /\ resSlots' = found
                    /\ got' = Returned(got, found)
               ELSE /\ cpc' = "blocked"
                    /\ UNCHANGED <<res, resSlots, idx, outcome, got>>
    /\ UNCHANGED <<wake, obj, timed, seen>> /\ ConsumerFrame

\* a variant of WaitWake in which the woken wait returns without a scan
WaitWakeReturnsEmpty ==
    /\ cpc = "blocked" /\ wake
    /\ wake' = FALSE
    /\ cpc' = "call" /\ outcome' = "set" /\ res' = <<>> /\ resSlots' = <<>>
    /\ UNCHANGED <<obj, timed, scan, acc, idx, seen, got, atCall>> /\ ConsumerFrame

\* a blocked waiter consumes the pending notification and scans again
WaitWake ==
    /\ cpc = "blocked" /\ wake
    /\ wake' = FALSE
    /\ cpc' = "scan" /\ scan' = 1 /\ acc' = <<>> /\ outcome' = "woken"
    /\ UNCHANGED <<obj, timed, res, resSlots, idx, seen, got, atCall>> /\ ConsumerFrame

\* the bounded wait gives up
WaitTimeout ==
    /\ cpc = "blocked" /\ timed
    /\ cpc' = "call" /\ outcome' = "timeout"
    /\ res' = <<>> /\ resSlots' = <<>> /\ idx' = 0
    /\ UNCHANGED <<wake, obj, timed, scan, acc, seen, got, atCall>> /\ ConsumerFrame

\* callOnActivate reads the activation code, callOnAction only prints
Invoke(callback, o, old) ==
    IF callback = "callOnActivate" THEN getActivationCode(o) ELSE old

\* lines 161 to 170: triggerState() for a known id; an entry of another id
\* is passed over, and after the last entry the vector is destroyed
DispatchCall ==
    /\ cpc = "dispatch"
    /\ IF res[idx].gid = ACTIVATE_ID
       THEN /\ seen' = Invoke(res[idx].callback, obj[res[idx].origin], seen)
            /\ cpc' = "reset" /\ UNCHANGED idx
       ELSE IF res[idx].gid = ACTION_ID
       THEN /\ seen' = Invoke(res[idx].callback, obj[res[idx].origin], seen)
            /\ cpc' = "reset" /\ UNCHANGED idx
       ELSE /\ UNCHANGED seen
            /\ IF idx < Len(res) THEN idx' = idx + 1 /\ UNCHANGED cpc
                                 ELSE idx' = 0 /\ cpc' = "call"
    /\ IF cpc' = "call"
       THEN res' = <<>> /\ resSlots' = <<>> /\ outcome' = "none"
       ELSE UNCHANGED <<res, resSlots, outcome>>
    /\ UNCHANGED <<wake, obj, timed, scan, acc, got, atCall>> /\ ConsumerFrame

\* the consumer is inside reset()
ResetPcs == {"reset", "reset_activated", "reset_action"}

\* lines 164 and 169: getOrigin()->reset(). The latches are plain members
\* that reset() writes while the producers write them too, with no
\* synchronisation (a data race): the stores of lines 69 and 70 are separate
\* steps and become visible to the producers in either order. This is the
\* store that is visible first
DispatchReset ==
    /\ cpc = "reset"
    /\ \/ /\ obj' = [obj EXCEPT ![res[idx].origin] = resetHasPerformedAction(@)]
          /\ cpc' = "reset_activated"
       \/ /\ obj' = [obj EXCEPT ![res[idx].origin] = resetIsActivated(@)]
          /\ cpc' = "reset_action"
    /\ UNCHANGED <<wake, timed, scan, acc, res, resSlots, idx, outcome, seen, got,
                   atCall>>
    /\ ConsumerFrame

\* the other store of reset(), then the next entry of the for loop
DispatchResetEnd ==
    /\ cpc \in {"reset_activated", "reset_action"}
    /\ obj' = [obj EXCEPT ![res[idx].origin] =
                  IF cpc = "reset_activated" THEN resetIsActivated(@)
                                             ELSE resetHasPerformedAction(@)]
    /\ IF idx < Len(res)
       THEN /\ idx' = idx + 1 /\ cpc' = "dispatch"
            /\ UNCHANGED <<res, resSlots, outcome>>
       ELSE /\ idx' = 0 /\ cpc' = "call"
            /\ res' = <<>> /\ resSlots' = <<>> /\ outcome' = "none"
    /\ UNCHANGED <<wake, timed, scan, acc, seen, got, atCall>> /\ ConsumerFrame

\* ----------------------------------------------------- a second consumer
\* a second thread that runs backgroundThread (section 5: one or more waiter
\* threads call wait), at line 158 before its first wait call. Its record
\* holds its position and its locals: inside wait the next slot and the
\* satisfied slots so far, the vector wait returned and the position of the
\* for loop; stored (history) tells whether it has made a store of reset()
SecondConsumer == [pc |-> "call", origin |-> "none", only |-> <<"wait">>, left |-> -1,
                   scan |-> 0, acc |-> <<>>, res |-> <<>>, idx |-> 0, stored |-> FALSE]

\* waitset->wait() (line 158): the scan starts
OtherWaitCall(p) ==
    /\ p \in Consumers /\ ppc[p].pc = "call"
    /\ ppc' = [ppc EXCEPT ![p].pc = "scan", ![p].scan = 1, ![p].acc = <<>>]
    /\ UNCHANGED <<wake, obj, code>> /\ ProducerFrame

\* the scan evaluates one slot; after the last slot wait returns the
\* satisfied slots, or blocks when there is none
OtherWaitScan(p) ==
    /\ p \in Consumers /\ ppc[p].pc = "scan"
    /\ LET found == Found(ppc[p].acc, ppc[p].scan, Satisfied(table, obj, ppc[p].scan)) IN
       ppc' = IF ppc[p].scan < Capacity
              THEN [ppc EXCEPT ![p].scan = @ + 1, ![p].acc = found]
              ELSE IF found # <<>>
              THEN [ppc EXCEPT ![p].pc = "dispatch", ![p].scan = 0, ![p].acc = <<>>,
                               ![p].res = TriggerStates(table, found), ![p].idx = 1]
              ELSE [ppc EXCEPT ![p].pc = "blocked", ![p].scan = 0, ![p].acc = <<>>]
    /\ UNCHANGED <<wake, obj, code>> /\ ProducerFrame

\* blocked on the shared wake signal, it consumes the pending notification
\* and scans again
OtherWaitWake(p) ==
    /\ p \in Consumers /\ ppc[p].pc = "blocked" /\ wake
    /\ wake' = FALSE
    /\ ppc' = [ppc EXCEPT ![p].pc = "scan", ![p].scan = 1, ![p].acc = <<>>]
    /\ UNCHANGED <<obj, code>> /\ ProducerFrame

\* the position after the entry idx of the for loop of line 159
OtherNextEntry(t) ==
    IF t.idx < Len(t.res) THEN [t EXCEPT !.pc = "dispatch", !.idx = @ + 1]
                          ELSE [t EXCEPT !.pc = "call", !.idx = 0, !.res = <<>>]

\* lines 161 to 170: triggerState() for a known id (the callbacks print);
\* an entry of another id is passed over
OtherDispatchCall(p) ==
    /\ p \in Consumers /\ ppc[p].pc = "dispatch"
    /\ ppc' = [ppc EXCEPT ![p] =
                  IF ppc[p].res[ppc[p].idx].gid \in {ACTIVATE_ID, ACTION_ID}
                  THEN [@ EXCEPT !.pc = "reset"] ELSE OtherNextEntry(@)]
    /\ UNCHANGED <<wake, obj, code>> /\ ProducerFrame

\* lines 164 and 169: the store of reset() that is visible first
OtherReset(p) ==
    /\ p \in Consumers /\ ppc[p].pc = "reset"
    /\ \/ /\ obj' = [obj EXCEPT ![ppc[p].res[ppc[p].idx].origin] =
                         resetHasPerformedAction(@)]
          /\ ppc' = [ppc EXCEPT ![p].pc = "reset_activated", ![p].stored = TRUE]
       \/ /\ obj' = [obj EXCEPT ![ppc[p].res[ppc[p].idx].origin] = resetIsActivated(@)]
          /\ ppc' = [ppc EXCEPT ![p].pc = "reset_action", ![p].stored = TRUE]
    /\ UNCHANGED <<wake, code>> /\ ProducerFrame

\* the other store of reset(), then the next entry of the for loop
OtherResetEnd(p) ==
    /\ p \in Consumers /\ ppc[p].pc \in {"reset_activated", "reset_action"}
    /\ obj' = [obj EXCEPT ![ppc[p].res[ppc[p].idx].origin] =
                  IF ppc[p].pc = "reset_activated" THEN resetIsActivated(@)
                                                  ELSE resetHasPerformedAction(@)]
    /\ ppc' = [ppc EXCEPT ![p] = OtherNextEntry(@)]
    /\ UNCHANGED <<wake, code>> /\ ProducerFrame

\* ------------------------------------------------------------- teardown
\* release of every still valid slot, in slot order, each with its hook
RECURSIVE ReleaseAll(_, _, _)
ReleaseAll(tbl, objs, s) ==
    IF s > Capacity THEN [table |-> tbl, obj |-> objs, hooks |-> 0]
    ELSE CHOOSE out \in
             {[ReleaseAll(r.table, r.obj, s + 1) EXCEPT !.hooks = @ + r.hooks] :
                 r \in {releaseTrigger(tbl, objs, IF tbl[s].valid THEN s ELSE NullHandle)}} :
             TRUE

\* registry teardown (section 4.2): release on every still valid slot, then
\* the table is discarded; as a mutation of the table it excludes the scan
Teardown ==
    /\ life = "up" /\ ~TableLocked /\ mpc = <<>>
    /\ \E r \in {ReleaseAll(table, obj, 1)} :
       /\ table' = r.table /\ obj' = r.obj /\ hooks' = r.hooks
    /\ order' = <<>> /\ life' = "down" /\ ret' = "teardown"
    /\ UNCHANGED <<wake, mpc, ppc, code, cpc, timed, scan, acc, res, resSlots, idx,
                   outcome, seen, got, atCall, rel>>

Next ==
    \/ \E o \in Origins, e \in MyTriggerClassEvents : AttachOnce(o, e)
    \/ AttachStore
    \/ \E o \in Origins, e \in MyTriggerClassEvents : Release(o, e)
    \/ \E p \in Producers, o \in Origins : ActivateCall(p, o)
    \/ \E p \in Producers : ActivateLatch(p)
    \/ \E p \in Producers : ActivateCode(p)
    \/ \E p \in Producers : ActivateTrigger(p)
    \/ \E p \in Producers, o \in Origins : PerformActionCall(p, o)
    \/ \E p \in Producers : PerformActionTrigger(p)
    \/ WaitCall(FALSE)
    \/ WaitScan
    \/ WaitWake
    \/ DispatchCall
    \/ DispatchReset
    \/ DispatchResetEnd
    \/ Teardown

Spec == Init /\ [][Next]_vars

\* ----------------------------------------------- the registry on its own
\* two origins use one registry; no thread signals or waits; origin A may
\* have been signalled before, its latches have any value
InitRegistry ==
    /\ table = [s \in Slots |-> FreeSlot]
    /\ order = <<>>
    /\ wake = FALSE
    /\ life = "up"
    /\ mpc = <<>>
    /\ \E a, b \in BOOLEAN :
          obj = [o \in {"A", "B"} |->
                    IF o = "A" THEN [NewObject EXCEPT !.m_isActivated = a,
                                                      !.m_hasPerformedAction = b]
                               ELSE NewObject]
    /\ ppc = <<>>
    /\ code = <<>>
    /\ ConsumerInit
    /\ got = <<>>
    /\ ret = "none"
    /\ hooks = 0
    /\ rel = <<>>

NextRegistry ==
    \/ \E o \in Origins, e \in MyTriggerClassEvents : Attach(o, e)
    \/ AttachStore
    \/ \E o \in Origins, e \in MyTriggerClassEvents : Release(o, e)
    \/ Teardown

SpecRegistry == InitRegistry /\ [][NextRegistry]_vars

\* ------------------------------------- K producers, one signal each (K = 2)
\* a thread that makes one call, of event e on origin o
OneCall(o, e) == [pc |-> "idle", origin |-> "none", only |-> <<o, e>>, left |-> 1]

\* the state after attaching event e1 of o1 and then event e2 of o2
Attached2(o1, e1, o2, e2) ==
    LET objs == [o \in {"A", "B"} |-> NewObject]
        r1 == attachToWaitset([s \in Slots |-> FreeSlot], objs[o1], o1, e1,
                              IdOf(e1), CallbackOf(e1))
        objs1 == [objs EXCEPT ![o1] = r1.this]
        r2 == attachToWaitset(r1.table, objs1[o2], o2, e2, IdOf(e2), CallbackOf(e2))
    IN [table |-> r2.table, obj |-> [objs1 EXCEPT ![o2] = r2.this]]

\* two distinct events are attached, each has its own producer thread
InitConcurrent ==
    \E o1 \in {"A", "B"}, o2 \in {"A", "B"}, e1 \in MyTriggerClassEvents,
       e2 \in MyTriggerClassEvents :
        /\ <<o1, e1>> # <<o2, e2>>
        /\ table = Attached2(o1, e1, o2, e2).table
        /\ obj = Attached2(o1, e1, o2, e2).obj
        /\ ppc = [p \in {"producer1", "producer2"} |->
                     IF p = "producer1" THEN OneCall(o1, e1) ELSE OneCall(o2, e2)]
    /\ order = <<1, 2>>
    /\ wake = FALSE
    /\ life = "up"
    /\ mpc = <<>>
    /\ code = [p \in {"producer1", "producer2"} |-> 1]
    /\ ConsumerInit
    /\ got = [s \in Slots |-> 0]
    /\ ret = "none"
    /\ hooks = 0
    /\ rel = <<>>

NextConcurrent ==
    \/ \E p \in Producers, o \in Origins : ActivateCall(p, o)
    \/ \E p \in Producers : ActivateLatch(p)
    \/ \E p \in Producers : ActivateCode(p)
    \/ \E p \in Producers : ActivateTrigger(p)
    \/ \E p \in Producers, o \in Origins : PerformActionCall(p, o)
    \/ \E p \in Producers : PerformActionTrigger(p)
    \/ WaitCall(FALSE)
    \/ WaitScan
    \/ WaitWake
    \/ DispatchCall
    \/ DispatchReset
    \/ DispatchResetEnd

SpecConcurrent == InitConcurrent /\ [][NextConcurrent]_vars

\* ------------------------- the concurrency scenario under fair scheduling
\* the consumer loop keeps running and a producer inside a call finishes it
FairConcurrent ==
    /\ InitConcurrent /\ [][NextConcurrent]_vars
    /\ WF_vars(WaitCall(FALSE)) /\ WF_vars(WaitScan) /\ WF_vars(WaitWake)
    /\ WF_vars(DispatchCall) /\ WF_vars(DispatchReset)
    /\ WF_vars(DispatchResetEnd)
    /\ \A p \in {"producer1", "producer2"} :
          /\ WF_vars(ActivateLatch(p)) /\ WF_vars(ActivateCode(p))
          /\ WF_vars(ActivateTrigger(p))
          /\ WF_vars(PerformActionTrigger(p))

\* ------------------------------------ an event the consumer never resets
\* a group id that backgroundThread does not know (lines 161 and 166)
OTHER_ID == 2

\* A's ACTIVATE is attached under OTHER_ID and B's PERFORMED_ACTION under
\* ACTION_ID; each has a producer that signals once
InitLevel ==
    /\ LET objs == [o \in {"A", "B"} |-> NewObject]
           r1 == attachToWaitset([s \in Slots |-> FreeSlot], objs["A"], "A", "ACTIVATE",
                                 OTHER_ID, CallbackOf("ACTIVATE"))
           r2 == attachToWaitset(r1.table, objs["B"], "B", "PERFORMED_ACTION",
                                 ACTION_ID, CallbackOf("PERFORMED_ACTION"))
       IN /\ table = r2.table
          /\ obj = [o \in {"A", "B"} |-> IF o = "A" THEN r1.this ELSE r2.this]
    /\ ppc = [p \in {"producer1", "producer2"} |->
                 IF p = "producer1" THEN OneCall("A", "ACTIVATE")
                                    ELSE OneCall("B", "PERFORMED_ACTION")]
    /\ code = [p \in {"producer1", "producer2"} |-> 1]
    /\ order = <<1, 2>>
    /\ wake = FALSE
    /\ life = "up"
    /\ mpc = <<>>
    /\ ConsumerInit
    /\ got = [s \in Slots |-> 0]
    /\ ret = "none"
    /\ hooks = 0
    /\ rel = <<>>

NextLevel ==
    \/ \E p \in Producers, o \in Origins : ActivateCall(p, o)
    \/ \E p \in Producers : ActivateLatch(p)
    \/ \E p \in Producers : ActivateCode(p)
    \/ \E p \in Producers : ActivateTrigger(p)
    \/ \E p \in Producers, o \in Origins : PerformActionCall(p, o)
    \/ \E p \in Producers : PerformActionTrigger(p)
    \/ (\A s \in Slots : got[s] < MaxReturns) /\ WaitCall(FALSE)
    \/ WaitScan
    \/ WaitWake
    \/ DispatchCall
    \/ DispatchReset
    \/ DispatchResetEnd

SpecLevel == InitLevel /\ [][NextLevel]_vars

\* ------------------------------------------- the bounded wait, A and B
\* origin A gets attached under id 0 and origin B under id 1; one thread
\* signals A once; the consumer uses the bounded wait
InitBounded ==
    /\ table = [s \in Slots |-> FreeSlot]
    /\ obj = [o \in {"A", "B"} |-> NewObject]
    /\ ppc = [p \in {"producer1"} |-> OneCall("A", "ACTIVATE")]
    /\ code = [p \in {"producer1"} |-> 1]
    /\ order = <<>>
    /\ wake = FALSE
    /\ life = "up"
    /\ mpc = <<>>
    /\ ConsumerInit
    /\ got = [s \in Slots |-> 0]
    /\ ret = "none"
    /\ hooks = 0
    /\ rel = <<>>

NextBounded ==
    \/ AttachOnce("A", "ACTIVATE")
    \/ AttachOnce("B", "PERFORMED_ACTION")
    \/ AttachStore
    \/ \E p \in Producers, o \in Origins : ActivateCall(p, o)
    \/ \E p \in Producers : ActivateLatch(p)
    \/ \E p \in Producers : ActivateCode(p)
    \/ \E p \in Producers : ActivateTrigger(p)
    \/ WaitCall(TRUE)
    \/ WaitScan
    \/ WaitWake
    \/ WaitTimeout
    \/ DispatchCall
    \/ DispatchReset
    \/ DispatchResetEnd

SpecBounded == InitBounded /\ [][NextBounded]_vars

\* ------------------------------- two consumers, attach and release go on
\* main's object with both events attached (lines 182 to 184), a producer
\* thread for each event that signals once, backgroundThread and a second
\* consumer thread; while the threads run the ACTIVATE event is released and
\* attached again
InitTwoConsumers ==
    /\ table = Attached2("A", "ACTIVATE", "A", "PERFORMED_ACTION").table
    /\ obj = [o \in {"A"} |-> Attached2("A", "ACTIVATE", "A", "PERFORMED_ACTION").obj[o]]
    /\ ppc = [p \in {"producer1", "producer2", "backgroundThread2"} |->
                 IF p = "producer1" THEN OneCall("A", "ACTIVATE")
                 ELSE IF p = "producer2" THEN OneCall("A", "PERFORMED_ACTION")
                 ELSE SecondConsumer]
    /\ code = [p \in {"producer1", "producer2"} |-> 1]
    /\ order = <<1, 2>>
    /\ wake = FALSE
    /\ life = "up"
    /\ mpc = <<>>
    /\ ConsumerInit
    /\ got = <<>>
    /\ ret = "none"
    /\ hooks = 0
    /\ rel = <<>>

NextTwoConsumers ==
    \/ \E o \in Origins : AttachOnce(o, "ACTIVATE")
    \/ AttachStore
    \/ \E o \in Origins : Release(o, "ACTIVATE")
    \/ \E p \in Producers, o \in Origins : ActivateCall(p, o)
    \/ \E p \in Producers : ActivateLatch(p)
    \/ \E p \in Producers : ActivateCode(p)
    \/ \E p \in Producers : ActivateTrigger(p)
    \/ \E p \in Producers, o \in Origins : PerformActionCall(p, o)
    \/ \E p \in Producers : PerformActionTrigger(p)
    \/ \E p \in Consumers : OtherWaitCall(p)
    \/ \E p \in Consumers : OtherWaitScan(p)
    \/ \E p \in Consumers : OtherWaitWake(p)
    \/ \E p \in Consumers : OtherDispatchCall(p)
    \/ \E p \in Consumers : OtherReset(p)
    \/ \E p \in Consumers : OtherResetEnd(p)
    \/ WaitCall(FALSE)
    \/ WaitScan
    \/ WaitWake
    \/ DispatchCall
    \/ DispatchReset
    \/ DispatchResetEnd

SpecTwoConsumers == InitTwoConsumers /\ [][NextTwoConsumers]_vars

\* ============================================================ properties
\* the origin stores a valid handle for the event
Registered(o, event) == HandleValid(MemberOf(obj[o], event))

\* every valid slot is the one an origin stores a handle to
NoLostHandle ==
    \A s \in Slots : table[s].valid =>
        \E o \in Origins, e \in MyTriggerClassEvents : MemberOf(obj[o], e) = s

\* the step in which a wait call returns a set
WaitReturns == cpc = "scan" /\ cpc' = "dispatch"

\* C1: an attach with a free slot succeeds and fills exactly one slot, so N
\* attaches from the empty table succeed; an attach while all N slots are
\* valid returns CapacityExceeded and leaves every slot as it was.
C1_CapacityExceeded ==
    [][\A o \in Origins, e \in MyTriggerClassEvents :
          ret' \in {"success", "CapacityExceeded"} /\ Attach(o, e) =>
             IF NumValid(table) < Capacity
             THEN /\ ret' = "success"
                  /\ NumValid(table') = NumValid(table) + 1
                  /\ \A s \in Slots : table[s].valid => table'[s] = table[s]
             ELSE /\ ret' = "CapacityExceeded"
                  /\ table' = table]_vars

\* N attaches filled the empty table in slot order and the next one failed
C1_Witness ==
    /\ ret = "CapacityExceeded"
    /\ NumValid(table) = Capacity
    /\ order = [i \in 1..Capacity |-> i]

\* C2: when wait returns while exactly one registered event has its latch
\* set (and no registration is held twice), the result is exactly the entry
\* of that event: its group id, its origin, its callback.
C2_ExactlyTheSignalled ==
    [][WaitReturns /\ NoLostHandle =>
          \A o \in Origins, e \in MyTriggerClassEvents :
             (/\ Registered(o, e) /\ Latch(obj[o], e)
              /\ \A o2 \in Origins, e2 \in MyTriggerClassEvents :
                    Registered(o2, e2) /\ Latch(obj[o2], e2) => o2 = o /\ e2 = e)
             => res' = <<[gid |-> IdOf(e), origin |-> o, callback |-> CallbackOf(e)]>>]_vars

\* a wait returned the ACTIVATE entry alone while both events were registered
C2_Witness ==
    /\ cpc = "dispatch" /\ idx = 1 /\ Len(res) = 1 /\ res[1].gid = ACTIVATE_ID
    /\ \E o \in Origins : /\ Registered(o, "ACTIVATE") /\ Registered(o, "PERFORMED_ACTION")
                          /\ obj[o].m_isActivated /\ ~obj[o].m_hasPerformedAction

\* the first consumer is the only thread that has called reset() so far
SingleConsumer == \A p \in Consumers : ~ppc[p].stored

\* every entry of the returned set is the TriggerState of a valid slot whose
\* predicate is true in the state of the return
NoStaleEntry ==
    \A i \in 1..Len(res') :
       /\ Satisfied(table', obj', resSlots'[i])
       /\ res'[i] = TriggerState(table', resSlots'[i])

\* C3 as the specification states it: whatever signal, reset, acquire and release do
\* while a thread waits, every entry of a set that wait returns comes from a
\* valid slot whose predicate is true in the state of the return.
C3_AnyInterleaving == [][WaitReturns => NoStaleEntry]_vars

\* C3 amended: as long as no thread but the waiting one calls reset(), every
\* entry of a set that wait returns comes from a valid slot whose predicate
\* is true in the state of the return, whatever signal, acquire and release
\* do meanwhile.
C3_NoFalsePositive == [][WaitReturns /\ SingleConsumer => NoStaleEntry]_vars

\* a wait returned two entries, the second latched during the scan, and no
\* other thread has called reset()
C3_Witness ==
    /\ cpc = "dispatch" /\ idx = 1 /\ Len(res) = 2
    /\ \E p \in Producers : ppc[p].pc \in {"activate_trigger", "action_trigger"}
    /\ SingleConsumer

\* every producer has made its calls and the waiter has nothing left to do
Quiescent ==
    /\ \A p \in Producers : ppc[p].pc = "idle" /\ ppc[p].left = 0
    /\ cpc = "blocked" /\ ~wake

\* C4: after K producers signalled K distinct attached events, the waiter's
\* wait calls have returned each of the K events exactly once.
C4_EachSignalledOnce ==
    Quiescent => \A s \in Slots : table[s].valid => got[s] = 1

\* the handle of event e of origin o was released and e not attached again
Released(o, e) == rel # <<>> /\ rel[1] = o /\ rel[2] = e

\* no origin stores a valid handle
NoHandleStored(objs) ==
    \A o \in DOMAIN objs, e \in MyTriggerClassEvents : ~HandleValid(MemberOf(objs[o], e))

\* C5: a release of a handle that was already released, or was never
\* acquired, changes no slot and no origin and invokes no hook, also when
\* the slot it had named is valid again for another registration.
C5_SecondReleaseNoop ==
    [][\A o \in Origins, e \in MyTriggerClassEvents :
          /\ ret' \in {"released", "noop"}
          /\ Released(o, e) \/ ~HandleValid(MemberOf(obj[o], e))
          /\ Release(o, e)
          => table' = table /\ obj' = obj /\ hooks' = 0 /\ ret' = "noop"]_vars

\* the second release of a handle found every slot valid, so also the slot
\* the first release had freed
C5_Witness ==
    /\ ret = "noop" /\ rel # <<>> /\ rel[3]
    /\ NumValid(table) = Capacity

\* C6: the teardown step invokes the hook of every slot that was valid;
\* once the registry is down no slot is valid and no origin stores a handle.
C6_TeardownReleasesAll ==
    [][life' = "down" =>
          /\ \A s \in Slots : table'[s] = FreeSlot
          /\ NoHandleStored(obj')
          /\ life = "up" => hooks' = NumValid(table)]_vars

\* a teardown of a full table, with both handles of one origin stored before
C6_Witness ==
    /\ life = "down" /\ ret = "teardown" /\ hooks = Capacity
    /\ NoHandleStored(obj)

\* the step in which a wait call ends, with a set or otherwise
WaitEnds == cpc \in {"scan", "blocked"} /\ cpc' \notin {"scan", "blocked"}

\* C7: with A attached under id 0 and B under id 1 and one signal on A, a
\* wait that returns a set returns exactly [{id 0, origin A}]; a bounded wait
\* that ends after that entry was returned (and so dispatched and reset)
\* ends with the Timeout outcome and with no set at all.
C7_SetThenTimeout ==
    [][/\ WaitReturns =>
            /\ outcome' = "set"
            /\ res' = <<[gid |-> 0, origin |-> "A", callback |-> "callOnActivate"]>>
       /\ WaitEnds /\ timed /\ (\E s \in Slots : got[s] >= 1) =>
            /\ outcome' = "timeout" /\ cpc' = "call" /\ res' = <<>>]_vars

\* the signal on A was returned once and the next bounded wait timed out
C7_Witness ==
    /\ outcome = "timeout" /\ got = [s \in Slots |-> IF s = 1 THEN 1 ELSE 0]
    /\ table[1].origin = "A" /\ table[1].gid = 0
    /\ table[2].origin = "B" /\ table[2].gid = 1
    /\ \A p \in Producers : ppc[p].left = 0
    /\ \A o \in Origins : ~obj[o].m_isActivated /\ ~obj[o].m_hasPerformedAction

\* a producer step that calls trigger() of the handle stored for event e
TriggerStep(p, e) ==
    /\ ppc[p].pc = (IF e = "ACTIVATE" THEN "activate_trigger" ELSE "action_trigger")
    /\ ppc'[p].pc = "idle"

\* C8: a released event is not returned by any later wait, whatever its
\* latch; a signal through its stale handle, or after teardown, leaves the
\* wake signal and the table as they are.
C8_ReleasedForGood ==
    [][/\ WaitReturns =>
            \A i \in 1..Len(res') :
               /\ table'[resSlots'[i]].valid
               /\ ~Released(res'[i].origin,
                            IF res'[i].gid = ACTIVATE_ID THEN "ACTIVATE"
                                                         ELSE "PERFORMED_ACTION")
       /\ \A p \in Producers, e \in MyTriggerClassEvents :
            TriggerStep(p, e) /\ (Released(ppc[p].origin, e) \/ life = "down")
            => wake' = wake /\ table' = table]_vars

\* a wait returned the other event while the released event's latch is set
\* and the signal through its stale handle is over
C8_Witness ==
    /\ cpc = "dispatch" /\ idx = 1 /\ Len(res) = 1
    /\ \A p \in Producers : ppc[p].pc = "idle"
    /\ \E o \in Origins, e \in MyTriggerClassEvents :
          Released(o, e) /\ rel[3] /\ Latch(obj[o], e)

\* slot s is an entry of the result the consumer is dispatching
InResult(s) ==
    cpc \in {"dispatch"} \cup ResetPcs /\ \E i \in 1..Len(resSlots) : resSlots[i] = s

\* C11: no wake-up is lost: once the latch of a registered event is set, a
\* wait eventually returns that event, unless the latch is reset before,
\* whatever the interleaving of the signal with the scan and the blocking.
C11_NoLostWakeup ==
    \A s \in Slots :
        Satisfied(table, obj, s) ~> (InResult(s) \/ ~Satisfied(table, obj, s))

\* the signal on slot 1 came after the scan had passed slot 1 and before the
\* waiter blocked; later the waiter was woken and returned slot 1
C11_Witness ==
    /\ InResult(1) /\ got[1] = 1 /\ ~wake
    /\ \A t \in Slots : t # 1 => got[t] = 0 /\ ~Satisfied(table, obj, t)
    /\ \A p \in Producers : ppc[p].pc = "idle"
    /\ \E p \in Producers : ppc[p].left = 1

\* a step in which reset(), called on the origin of an entry, makes a store
ResetStep == cpc \in ResetPcs /\ cpc' # cpc

\* C12: reset() in the consumer loop sets a latch of a registered event back
\* to false only if the result being dispatched contains that event.
C12_ResetOnlyDispatched ==
    [][ResetStep =>
          \A o \in Origins, e \in MyTriggerClassEvents :
             Registered(o, e) /\ Latch(obj[o], e) /\ ~Latch(obj'[o], e)
             => \E i \in 1..Len(resSlots) : resSlots[i] = MemberOf(obj[o], e)]_vars

\* C13: wait is level-triggered: a wait called while a registered event's
\* latch is set does not block, and its result contains every event whose
\* latch was set at the call, so an event that is not reset is returned by
\* every subsequent wait.
C13_LevelTriggered ==
    [][/\ cpc = "scan" /\ cpc' = "blocked" => atCall = {}
       /\ WaitReturns => \A s \in atCall : \E i \in 1..Len(resSlots') : resSlots'[i] = s]_vars

\* A was signalled once and never reset, and a second wait returned it again
C13_Witness ==
    /\ InResult(1) /\ got[1] >= 2
    /\ table[1].origin = "A" /\ obj["A"].m_isActivated
    /\ ppc["producer1"].left = 0

\* C14: while the registry is up, an unbounded wait ends only by returning a
\* set that is not empty; a waiter that is woken and finds no predicate
\* true blocks again.
C14_NeverEmpty ==
    [][/\ WaitEnds /\ ~timed /\ life = "up" =>
            cpc' = "dispatch" /\ outcome' = "set" /\ res' # <<>>
       /\ cpc = "scan" /\ scan = Capacity /\ life = "up"
          /\ (\A s \in Slots : ~Satisfied(table, obj, s)) => cpc' \in {"scan", "blocked"}]_vars

\* the waiter was woken by a signal whose latch had been reset already,
\* found nothing and blocks again
C14_Witness ==
    /\ cpc = "blocked" /\ outcome = "woken" /\ life = "up" /\ ~wake
    /\ \A p \in Producers : ppc[p].pc = "idle"
    /\ \A s \in Slots : table[s].valid /\ ~Satisfied(table, obj, s)

\* a slot is fully valid (every field stored) or fully free
SlotWellFormed(t) ==
    IF t.valid
    THEN /\ t.origin # "none" /\ t.predicate # "none"
         /\ t.hook # "none" /\ t.callback # "none"
    ELSE t = FreeSlot

\* the handles the origins store name valid slots of their own, each its own
HandlesDistinct ==
    \A o \in Origins, e \in MyTriggerClassEvents :
        LET h == MemberOf(obj[o], e) IN
        HandleValid(h) =>
            /\ table[h].valid /\ table[h].origin = o
            /\ \A o2 \in Origins, e2 \in MyTriggerClassEvents :
                  <<o2, e2>> # <<o, e>> => MemberOf(obj[o2], e2) # h

\* C15: at most N slots are valid, every slot is fully valid or fully free
\* and no two stored handles name the same slot; a release of a valid handle
\* invokes the hook once, frees that slot and no other, and leaves a free
\* slot so that an acquire that follows succeeds.
C15_TableInvariants ==
    /\ [](/\ NumValid(table) <= Capacity
          /\ \A s \in Slots : SlotWellFormed(table[s])
          /\ HandlesDistinct)
    /\ [][\A o \in Origins, e \in MyTriggerClassEvents :
            ret' = "released" /\ Release(o, e) =>
               LET h == MemberOf(obj[o], e) IN
               /\ hooks' = 1
               /\ table'[h] = FreeSlot
               /\ \A s \in Slots : s # h => table'[s] = table[s]
               /\ ~HandleValid(MemberOf(obj'[o], e))
               /\ acquireTrigger(table', o, "isActivated", "unsetTrigger",
                                 ACTIVATE_ID, "callOnActivate").error = "none"]_vars

\* the table was full, a handle was released, and the acquire that followed
\* succeeded in the freed slot
C15_Witness ==
    /\ ret = "success" /\ NumValid(table) = Capacity
    /\ Len(order) = Capacity /\ order[Capacity] < Capacity
    /\ HandlesDistinct

\* a step of a producer inside activate() or performAction()
SignalStep == ppc' # ppc

\* a signal step leaves the registry and the consumer alone: no slot changes,
\* no predicate is evaluated, no callback is invoked, no result changes
SignalFrame ==
    /\ table' = table /\ order' = order /\ life' = life
    /\ UNCHANGED <<cpc, scan, acc, res, resSlots, idx, seen, outcome, got>>
    /\ hooks' = 0

\* a producer inside a call can always take its next step
NeverBlocked ==
    \A p \in Producers :
        /\ ppc[p].pc = "activate_latch" => ENABLED ActivateLatch(p)
        /\ ppc[p].pc = "activate_code" => ENABLED ActivateCode(p)
        /\ ppc[p].pc = "activate_trigger" => ENABLED ActivateTrigger(p)
        /\ ppc[p].pc = "action_trigger" => ENABLED PerformActionTrigger(p)

\* C16 as the specification states it: a signal changes nothing of the
\* origin but its latch, and nothing else but the wake signal.
C16_OnlyLatchAndWake ==
    [][SignalStep =>
          /\ SignalFrame
          /\ \A o \in Origins :
                [obj'[o] EXCEPT !.m_isActivated = FALSE, !.m_hasPerformedAction = FALSE]
                = [obj[o] EXCEPT !.m_isActivated = FALSE, !.m_hasPerformedAction = FALSE]]_vars

\* C16 amended: a signal changes the origin's latch, for activate() also
\* the stored activation code, and the wake signal; it leaves the table, the
\* stored handles and the consumer as they are, and the producer is never
\* blocked inside the call.
C16_SignalFrame ==
    /\ []NeverBlocked
    /\ [][SignalStep =>
            /\ SignalFrame
            /\ \A o \in Origins :
                  /\ obj'[o].m_actionTrigger = obj[o].m_actionTrigger
                  /\ obj'[o].m_activateTrigger = obj[o].m_activateTrigger
                  /\ obj[o].m_isActivated => obj'[o].m_isActivated
                  /\ obj[o].m_hasPerformedAction => obj'[o].m_hasPerformedAction]_vars

\* activate(1) ran from its first to its last line while the waiter was
\* inside its scan, with both events attached
C16_Witness ==
    /\ cpc = "scan" /\ wake
    /\ \A p \in Producers : ppc[p].pc = "idle" /\ code[p] = 2
    /\ \A o \in Origins :
          /\ obj[o].m_isActivated /\ obj[o].m_activationCode = 1
          /\ Registered(o, "ACTIVATE") /\ Registered(o, "PERFORMED_ACTION")

\* the step in which the consumer invokes callOnActivate
ActivateDispatch ==
    cpc = "dispatch" /\ cpc' = "reset" /\ res[idx].callback = "callOnActivate"

OtherEvent(e) == IF e = "ACTIVATE" THEN "PERFORMED_ACTION" ELSE "ACTIVATE"

\* the step in which attachToWaitset, back from acquireTrigger, returns
AttachReturns == mpc # <<>> /\ mpc' = <<>>

\* C18: a successful attachToWaitset stores the handle of the slot it
\* acquired in the member of its event and changes nothing else of any
\* origin; a failed one returns the error and changes no origin at all.
C18_HandleStoredOnSuccess ==
    [][AttachReturns =>
          LET o == mpc.origin
              e == mpc.event
          IN IF ret' = "success"
             THEN /\ mpc.error = "none"
                  /\ mpc.slots = <<MemberOf(obj'[o], e)>>
                  /\ table'[MemberOf(obj'[o], e)].valid
                  /\ table'[MemberOf(obj'[o], e)].origin = o
                  /\ MemberOf(obj'[o], OtherEvent(e)) = MemberOf(obj[o], OtherEvent(e))
                  /\ obj'[o].m_isActivated = obj[o].m_isActivated
                  /\ obj'[o].m_hasPerformedAction = obj[o].m_hasPerformedAction
                  /\ obj'[o].m_activationCode = obj[o].m_activationCode
                  /\ \A o2 \in Origins : o2 # o => obj'[o2] = obj[o2]
             ELSE ret' = mpc.error /\ obj' = obj]_vars

\* an attach failed on the full table and returned, while A stores both of
\* its handles
C18_Witness ==
    /\ ret = "CapacityExceeded" /\ NumValid(table) = Capacity /\ mpc = <<>>
    /\ Registered("A", "ACTIVATE") /\ Registered("A", "PERFORMED_ACTION")
    /\ obj["A"].m_isActivated /\ ~obj["A"].m_hasPerformedAction

\* what a call of the hook of origin o with the Trigger of slot s may do
UnsetAtMostOne(o, tbl, s) ==
    LET n == unsetTrigger(o, tbl, s)
        eqAction == isLogicalEqualTo(tbl, s, o.m_actionTrigger)
        eqActivate == isLogicalEqualTo(tbl, s, o.m_activateTrigger)
    IN /\ n.m_isActivated = o.m_isActivated
       /\ n.m_hasPerformedAction = o.m_hasPerformedAction
       /\ n.m_activationCode = o.m_activationCode
       /\ eqAction => /\ n.m_actionTrigger = NullHandle
                      /\ n.m_activateTrigger = o.m_activateTrigger
       /\ ~eqAction /\ eqActivate => /\ n.m_activateTrigger = NullHandle
                                     /\ n.m_actionTrigger = o.m_actionTrigger
       /\ ~eqAction /\ ~eqActivate => n = o

\* C19: unsetTrigger resets the one member that is logically equal to the
\* Trigger passed in and leaves the other handle, both latches and the
\* activation code as they are; when no member matches, nothing changes.
\* So a release changes nothing of any origin but the released handle.
C19_UnsetAtMostOne ==
    /\ [](\A o \in Origins, s \in Slots : UnsetAtMostOne(obj[o], table, s))
    /\ [][\A o \in Origins, e \in MyTriggerClassEvents :
            ret' = "released" /\ Release(o, e) =>
               /\ obj' = [obj EXCEPT ![o] =
                             IF e = "ACTIVATE" THEN [@ EXCEPT !.m_activateTrigger = NullHandle]
                                               ELSE [@ EXCEPT !.m_actionTrigger = NullHandle]]]_vars

\* the hook reset the handle of A's PERFORMED_ACTION and left the handle of
\* A's ACTIVATE and the latch that was set
C19_Witness ==
    /\ ret = "released" /\ hooks = 1
    /\ rel = <<"A", "PERFORMED_ACTION", TRUE>>
    /\ Registered("A", "ACTIVATE") /\ ~Registered("A", "PERFORMED_ACTION")
    /\ obj["A"].m_hasPerformedAction

====
